---- MODULE Spec2Model ----
(***************************************************************************)
(* A model of google-documents: the entity wrappers (File, Folder,         *)
(* Document, Spreadsheet, Sheet), the files factory and the Drive manager. *)
(*                                                                         *)
(* Python strings that the code formats or rewrites are sequences of       *)
(* one-character strings; identifiers that are only compared are TLA+      *)
(* strings.  A Python dict is a function whose DOMAIN is its key set.  An  *)
(* API call is a request record appended to the requests an operation      *)
(* issued, and its response is an input: [ok |-> FALSE] is an HttpError    *)
(* raised by execute(), [ok |-> TRUE, body |-> dict] a normal response.    *)
(***************************************************************************)
EXTENDS Integers, Sequences, FiniteSets, TLC

VARIABLES
    sheetObjs,  \* the Sheet objects of the program: slot -> Sheet
    fileObjs,   \* the File-derived objects of the program: slot -> object
    drive,      \* the remote Drive: file id -> item, parents, existence
    mgr,        \* the manager: its file_cls and both service account files
    last        \* what the last operation did: inputs, outcome, requests

vars == <<sheetObjs, fileObjs, drive, mgr, last>>

\* Python's None, for attributes whose other values are strings or numbers.
None == "None"

\* Python's None, for attributes whose other values are objects.
NoneObj == [none |-> TRUE]

\* dict.get(key, default)
DictGet(d, k, default) == IF k \in DOMAIN d THEN d[k] ELSE default

\* How an operation ends: a returned value or a raised exception.
Return(v) == [kind |-> "return", value |-> v]
Raise(e) == [kind |-> "raise", value |-> e]

\* request.execute(): the response's body, or the HttpError it raises.
HttpError == [ok |-> FALSE]
Response(body) == [ok |-> TRUE, body |-> body]

(***************************************************************************)
(* Bounds of the model.                                                    *)
(***************************************************************************)
NSheets == 2
NFiles == 2
MaxKeyLen == 2
MaxKwargs == 2

SheetSlots == 1..NSheets
FileSlots == 1..NFiles
SheetIds == {0, 1}
SpreadsheetIds == {"sp1", "sp2"}
Titles == {<<"S", "1">>}
Ranges == {<<"A", "1">>}
ValueInputOptions == {"RAW", "USER_ENTERED"}
CellData == {<< <<"x">> >>}

(***************************************************************************)
(* file.py: the wrapper classes.  An object is its class and its instance  *)
(* attributes.  MIME_TYPES is the table of google_documents.settings.      *)
(***************************************************************************)
MIME_TYPES ==
    [folder |-> "application/vnd.google-apps.folder",
     document |-> "application/vnd.google-apps.document",
     spreadsheet |-> "application/vnd.google-apps.spreadsheet",
     docx |-> "application/vnd.openxmlformats-officedocument.wordprocessingml.document"]

FileClasses ==
    {"GoogleDriveFile", "GoogleDriveFolder", "GoogleDriveDocument",
     "GoogleDriveSpreadsheet"}

\* The class attribute mime_type of each wrapper class.
ClassMimeType(cls) ==
    CASE cls = "GoogleDriveFolder" -> MIME_TYPES["folder"]
      [] cls = "GoogleDriveDocument" -> MIME_TYPES["document"]
      [] cls = "GoogleDriveSpreadsheet" -> MIME_TYPES["spreadsheet"]
      [] OTHER -> None

\* GoogleDriveFile.__init__(self, id, name=None, mime_type=None), run for
\* an object of class cls: it assigns all three instance attributes.
GoogleDriveFile(cls, id, name, mime_type) ==
    [cls |-> cls, id |-> id, name |-> name, mime_type |-> mime_type]


\* A from_item that forgets the item's mimeType.
GoogleDriveFile_from_item_no_mime(cls, item) ==
    GoogleDriveFile(cls, item["id"], DictGet(item, "name", None), None)

\* cls.from_item(item)
GoogleDriveFile_from_item(cls, item) ==
    GoogleDriveFile(cls, item["id"], DictGet(item, "name", None),
                    DictGet(item, "mimeType", None))


\* An == of Files that also wants the same class.
GoogleDriveFile_eq_same_class(self, other) ==
    self.id = other.id /\ self.cls = other.cls

\* GoogleDriveFile.__eq__
GoogleDriveFile_eq(self, other) == self.id = other.id

(***************************************************************************)
(* sheet.py: Color, GridProperties and Sheet.                              *)
(***************************************************************************)
\* Color.__init__
Color(red, green, blue) == [red |-> red, green |-> green, blue |-> blue]

\* Color.from_item, inherited from FromItemable: the channels of the item,
\* 0 for one it does not give.
Color_from_item(item) ==
    Color(DictGet(item, "red", 0), DictGet(item, "green", 0),
          DictGet(item, "blue", 0))

GridProperties(row_count, column_count) ==
    [row_count |-> row_count, column_count |-> column_count]

GridProperties_from_item(item) ==
    GridProperties(item["rowCount"], item["columnCount"])

\* Sheet.__init__; the spreadsheet attribute is the class's, None.
Sheet(id, index, title, tab_color, grid_properties) ==
    [spreadsheet |-> NoneObj,
     id |-> id,
     index |-> index,
     title |-> title,
     tab_color |-> tab_color,
     grid_properties |-> grid_properties]

\* The truth value of what properties.get(...) returns: None and an empty
\* dict are falsy, a dict with a key is truthy.
ItemTruthy(value) == value # NoneObj /\ value # <<>>

\* Sheet.from_item
Sheet_from_item(item) ==
    LET properties == item["properties"]
        grid_properties ==
            IF ItemTruthy(DictGet(properties, "gridProperties", NoneObj))
            THEN GridProperties_from_item(properties["gridProperties"])
            ELSE NoneObj
        tab_color ==
            IF ItemTruthy(DictGet(properties, "tabColor", NoneObj))
            THEN Color_from_item(properties["tabColor"])
            ELSE NoneObj
    IN Sheet(properties["sheetId"], properties["index"],
             properties["title"], tab_color, grid_properties)

Sheet_assign_spreadsheet(self, spreadsheet) ==
    [self EXCEPT !.spreadsheet = spreadsheet]

\* f"{self.title}!{sheet_range_name}"
Sheet_get_spreadsheet_range_name(self, sheet_range_name) ==
    self.title \o <<"!">> \o sheet_range_name

\* The truth value `assert self.spreadsheet` tests: None is falsy, a
\* Spreadsheet object is truthy (no __bool__ or __len__ in its classes).
Truthy(obj) == obj # NoneObj

\* What an operation did: how it ended, the requests it executed against
\* the API, in order, and the object it ran on afterwards.
Done(result, requests, self) ==
    [self |-> self, result |-> result, requests |-> requests]

\* request.execute() of the one request of an operation that returns the
\* response as it is.
Execute(request, resp, self) ==
    IF resp.ok
    THEN Done(Return(resp.body), <<request>>, self)
    ELSE Done(Raise("HttpError"), <<request>>, self)

\* GoogleDriveSpreadsheet.read
GoogleDriveSpreadsheet_read(self, range_name, resp) ==
    LET request == [api |-> "sheets.spreadsheets.values.get",
                    spreadsheetId |-> self.id, range |-> range_name]
    IN IF resp.ok
       THEN Done(Return(DictGet(resp.body, "values", <<>>)), <<request>>, self)
       ELSE Done(Raise("HttpError"), <<request>>, self)

\* GoogleDriveSpreadsheet.clear
GoogleDriveSpreadsheet_clear(self, range_name, resp) ==
    Execute([body |-> [range |-> range_name],
             api |-> "sheets.spreadsheets.values.clear",
             spreadsheetId |-> self.id,
             range |-> range_name], resp, self)

\* GoogleDriveSpreadsheet.write
GoogleDriveSpreadsheet_write(self, range_name, data, value_input_option, resp) ==
    Execute([body |-> [values |-> data],
             api |-> "sheets.spreadsheets.values.update",
             spreadsheetId |-> self.id,
             range |-> range_name,
             valueInputOption |-> value_input_option], resp, self)

\* What the Spreadsheet's method did, as done by the Sheet that called it.
Delegated(done, self) == Done(done.result, done.requests, self)


\* A guard that returns None where the assertion should fail.
AssertionFailed_silent(self) == Done(Return(NoneObj), <<>>, self)

AssertionFailed(self) == Done(Raise("AssertionError"), <<>>, self)

\* Sheet.read
Sheet_read(self, range_name, resp) ==
    IF ~Truthy(self.spreadsheet)
    THEN AssertionFailed(self)
    ELSE Delegated(GoogleDriveSpreadsheet_read(self.spreadsheet,
             Sheet_get_spreadsheet_range_name(self, range_name), resp), self)

\* Sheet.write
Sheet_write(self, range_name, data, value_input_option, resp) ==
    IF ~Truthy(self.spreadsheet)
    THEN AssertionFailed(self)
    ELSE Delegated(GoogleDriveSpreadsheet_write(self.spreadsheet,
             Sheet_get_spreadsheet_range_name(self, range_name), data,
             value_input_option, resp), self)

\* Sheet.clear
Sheet_clear(self, range_name, resp) ==
    IF ~Truthy(self.spreadsheet)
    THEN AssertionFailed(self)
    ELSE Delegated(GoogleDriveSpreadsheet_clear(self.spreadsheet,
             Sheet_get_spreadsheet_range_name(self, range_name), resp), self)

\* Sheet.delete: the spreadsheet reference is dropped only after execute()
\* returned.
Sheet_delete(self, resp) ==
    IF ~Truthy(self.spreadsheet)
    THEN AssertionFailed(self)
    ELSE LET request == [body |-> [requests |->
                             <<[deleteSheet |-> [sheetId |-> self.id]]>>],
                         api |-> "sheets.spreadsheets.batchUpdate",
                         spreadsheetId |-> self.spreadsheet.id]
         IN IF resp.ok
            THEN Done(Return(resp.body), <<request>>,
                      [self EXCEPT !.spreadsheet = NoneObj])
            ELSE Done(Raise("HttpError"), <<request>>, self)


\* An == of Sheets that looks at the sheet ids alone.
Sheet_eq_ids_only(self, other) == Return(self.id = other.id)

\* Sheet.__eq__
Sheet_eq(self, other) ==
    IF ~Truthy(self.spreadsheet) \/ ~Truthy(other.spreadsheet)
    THEN Raise("AssertionError")
    ELSE Return(GoogleDriveFile_eq(self.spreadsheet, other.spreadsheet)
                /\ self.id = other.id)

(***************************************************************************)
(* file.py: the operations of the wrappers that call the Drive API.  The   *)
(* object's _api_service comes from ApiCredentialsMixin and the manager;   *)
(* the operations below run on an object whose service could be built.     *)
(***************************************************************************)
\* GoogleDriveFolder(id=parent)
GoogleDriveFolder(id) == GoogleDriveFile("GoogleDriveFolder", id, None, None)

\* GoogleDriveFile.parents, iterated to its end: one request, then one
\* Folder per id of response["parents"].
GoogleDriveFile_parents(self, resp) ==
    LET request == [api |-> "drive.files.get", fileId |-> self.id,
                    fields |-> "parents"]
    IN IF ~resp.ok
       THEN Done(Raise("HttpError"), <<request>>, self)
       ELSE IF "parents" \notin DOMAIN resp.body
       THEN Done(Raise("KeyError"), <<request>>, self)
       ELSE Done(Return([k \in 1..Len(resp.body["parents"]) |->
                            GoogleDriveFolder(resp.body["parents"][k])]),
                 <<request>>, self)

\* GoogleDriveFolder.__contains__: `self in item.parents` compares each
\* yielded Folder with self by ==.
GoogleDriveFolder_contains(self, item, resp) ==
    LET done == GoogleDriveFile_parents(item, resp)
    IN IF done.result.kind = "raise"
       THEN Done(done.result, done.requests, self)
       ELSE Done(Return(\E k \in 1..Len(done.result.value) :
                            GoogleDriveFile_eq(done.result.value[k], self)),
                 done.requests, self)


\* A copy that returns None when the request fails.
GoogleDriveFile_copy_swallow(self, file_name, resp) ==
    LET request == [body |-> [name |-> file_name],
                    api |-> "drive.files.copy",
                    fileId |-> self.id]
    IN IF resp.ok
       THEN Done(Return(GoogleDriveFile_from_item(self.cls, resp.body)),
                 <<request>>, self)
       ELSE Done(Return(NoneObj), <<request>>, self)

\* GoogleDriveFile.copy: the copy is an object of self's class.
GoogleDriveFile_copy(self, file_name, resp) ==
    LET request == [body |-> [name |-> file_name],
                    api |-> "drive.files.copy",
                    fileId |-> self.id]
    IN IF resp.ok
       THEN Done(Return(GoogleDriveFile_from_item(self.cls, resp.body)),
                 <<request>>, self)
       ELSE Done(Raise("HttpError"), <<request>>, self)

\* GoogleDriveFile.delete: the delete request is built and dropped, its
\* execute() is never called, so no request is executed; returns None.
GoogleDriveFile_delete(self) == Done(Return(NoneObj), <<>>, self)

\* GoogleDriveFile.put_to_folder
GoogleDriveFile_put_to_folder(self, folder, resp) ==
    Execute([api |-> "drive.files.update",
             fileId |-> self.id,
             fields |-> "id, parents",
             addParents |-> folder.id], resp, self)

(***************************************************************************)
(* file.py: GoogleDriveFilesFactory.                                       *)
(***************************************************************************)
file_classes ==
    (MIME_TYPES["folder"] :> "GoogleDriveFolder")
    @@ (MIME_TYPES["document"] :> "GoogleDriveDocument")
    @@ (MIME_TYPES["spreadsheet"] :> "GoogleDriveSpreadsheet")

default_class == "GoogleDriveFile"

\* cls.file_classes.get(mime_type) or cls.default_class
get_file_class(mime_type) == DictGet(file_classes, mime_type, default_class)

GoogleDriveFilesFactory_from_item(item) ==
    GoogleDriveFile_from_item(
        get_file_class(DictGet(item, "mimeType", None)), item)

(***************************************************************************)
(* manager.py: GoogleDriveDocumentManager.                                 *)
(***************************************************************************)
\* The files os.path.isfile() finds, and that can be opened.
ExistingFiles == {"/keys/custom.json", "/keys/other.json", "/keys/default.json"}

\* The truth value of a path or None.
PathTruthy(path) == path # None /\ path # ""

\* __init__(file_cls); default_service_account_file is the class attribute
\* read from the environment at import.
GoogleDriveDocumentManager(file_cls, default) ==
    [file_cls |-> file_cls,
     custom_service_account_file |-> None,
     default_service_account_file |-> default]

\* What a manager operation did: how it ended, the requests it executed,
\* the key files it loaded credentials from, and the manager afterwards.
MDone(result, requests, loads, self) ==
    [self |-> self, result |-> result, requests |-> requests, loads |-> loads]

\* using(service_account_file)
Manager_using(self, service_account_file) ==
    IF service_account_file \notin ExistingFiles
    THEN MDone(Raise("ValueError"), <<>>, <<>>, self)
    ELSE MDone(Return("self"), <<>>, <<>>,
               [self EXCEPT !.custom_service_account_file = service_account_file])


\* A _service_account_file that prefers the default.
Manager_service_account_file_default_first(self) ==
    IF PathTruthy(self.default_service_account_file)
    THEN self.default_service_account_file
    ELSE self.custom_service_account_file

\* The property _service_account_file: custom or default.
Manager_service_account_file(self) ==
    IF PathTruthy(self.custom_service_account_file)
    THEN self.custom_service_account_file
    ELSE self.default_service_account_file

\* _get_service_from_service_account_file: the assertion, then the
\* credentials are loaded from the key file and the service is built.
Manager_get_service_from_service_account_file(self, service_account_file) ==
    IF ~PathTruthy(service_account_file)
    THEN MDone(Raise("AssertionError"), <<>>, <<>>, self)
    ELSE IF service_account_file \notin ExistingFiles
    THEN MDone(Raise("FileNotFoundError"), <<>>, <<service_account_file>>, self)
    ELSE MDone(Return([resource_name |-> "drive", version |-> 3,
                       credentials |-> service_account_file]),
               <<>>, <<service_account_file>>, self)

\* _get_api_service
Manager_get_api_service(self) ==
    Manager_get_service_from_service_account_file(
        self, Manager_service_account_file(self))

\* get(id): _get_item, from_item, set_api_service with a second service;
\* only HttpError is caught, and turned into None.
Manager_get(self, id, resp) ==
    LET service == Manager_get_api_service(self)
        request == [api |-> "drive.files.get", fileId |-> id]
    IN IF service.result.kind = "raise"
       THEN service
       ELSE IF ~resp.ok
       THEN MDone(Return(NoneObj), <<request>>, service.loads, self)
       ELSE MDone(Return(GoogleDriveFile_from_item(self.file_cls, resp.body)),
                  <<request>>,
                  service.loads \o Manager_get_api_service(self).loads, self)

(***************************************************************************)
(* manager.py: filter.  A keyword is a sequence of characters; a value is  *)
(* a Python value with its type; the query is the sequence of the pieces   *)
(* of text the f-strings and join() put one after the other.               *)
(***************************************************************************)
LowerCase ==
    <<"a", "b", "c", "d", "e", "f", "g", "h", "i", "j", "k", "l", "m",
      "n", "o", "p", "q", "r", "s", "t", "u", "v", "w", "x", "y", "z">>

UpperCase ==
    <<"A", "B", "C", "D", "E", "F", "G", "H", "I", "J", "K", "L", "M",
      "N", "O", "P", "Q", "R", "S", "T", "U", "V", "W", "X", "Y", "Z">>

\* [a-z]
IsLower(c) == \E k \in 1..Len(LowerCase) : LowerCase[k] = c

\* str.upper() of one character of [a-z]
Upper(c) == UpperCase[CHOOSE k \in 1..Len(LowerCase) : LowerCase[k] = c]


\* A conversion that drops every underscore, whatever follows it.
RECURSIVE param_camel_case_any_underscore(_)
param_camel_case_any_underscore(param) ==
    IF param = <<>>
    THEN <<>>
    ELSE IF Len(param) >= 2 /\ param[1] = "_"
    THEN <<IF IsLower(param[2]) THEN Upper(param[2]) ELSE param[2]>>
         \o param_camel_case_any_underscore(SubSeq(param, 3, Len(param)))
    ELSE <<param[1]>> \o param_camel_case_any_underscore(Tail(param))

\* re.sub('_[a-z]', lambda p: p.group(0)[-1].upper(), param): the matches
\* are found left to right, each starting where the last one ended.
RECURSIVE param_camel_case(_)
param_camel_case(param) ==
    IF param = <<>>
    THEN <<>>
    ELSE IF Len(param) >= 2 /\ param[1] = "_" /\ IsLower(param[2])
    THEN <<Upper(param[2])>> \o param_camel_case(SubSeq(param, 3, Len(param)))
    ELSE <<param[1]>> \o param_camel_case(Tail(param))

\* Python values, with their type.
PyBool(b) == [type |-> "bool", bool |-> b]
PyStr(x) == [type |-> "str", str |-> x]
PyObj(obj) == [obj |-> obj, type |-> "object"]

\* f"{value}" of a bool or a str
Format(value) ==
    IF value.type = "bool"
    THEN (IF value.bool THEN "True" ELSE "False")
    ELSE value.str

FolderKey == <<"f", "o", "l", "d", "e", "r">>
MimeTypeKey == <<"m", "i", "m", "e", "_", "t", "y", "p", "e">>

\* kwargs[key] = value: a key the dict holds keeps its place.
SetItem(kwargs, key, value) ==
    IF \E k \in 1..Len(kwargs) : kwargs[k].key = key
    THEN [k \in 1..Len(kwargs) |->
            IF kwargs[k].key = key THEN [value |-> value, key |-> key]
            ELSE kwargs[k]]
    ELSE Append(kwargs, [value |-> value, key |-> key])

\* _get_filter_folder_query
Manager_get_filter_folder_query(folder) ==
    <<"'", folder.id, "' in parents">>

\* The query of one keyword: the body of the loop of filter.
ParamQuery(param, value) ==
    IF param = FolderKey
    THEN Manager_get_filter_folder_query(value.obj)
    ELSE IF value.type = "bool"
    THEN param_camel_case(param) \o <<" = ", Format(value)>>
    ELSE param_camel_case(param) \o <<" contains '", Format(value), "'">>

\* sep.join(parts)
RECURSIVE Join(_, _)
Join(sep, parts) ==
    IF parts = <<>> THEN <<>>
    ELSE IF Len(parts) = 1 THEN parts[1]
    ELSE parts[1] \o <<sep>> \o Join(sep, Tail(parts))

\* filter(**kwargs)
Manager_filter(self, kwargs, resp) ==
    LET mime_type == ClassMimeType(self.file_cls)
        kw == IF mime_type # None /\ mime_type # ""
              THEN SetItem(kwargs, MimeTypeKey, PyStr(mime_type))
              ELSE kwargs
        params_queries == [k \in 1..Len(kw) |-> ParamQuery(kw[k].key, kw[k].value)]
        q == Join(" and ", params_queries)
        service == Manager_get_api_service(self)
        request == [api |-> "drive.files.list",
                    fields |-> "files(id, name, mimeType, parents)",
                    q |-> q,
                    spaces |-> "drive"]
    IN IF service.result.kind = "raise"
       THEN service
       ELSE IF ~resp.ok
       THEN MDone(Raise("HttpError"), <<request>>, service.loads, self)
       ELSE LET files_items == DictGet(resp.body, "files", <<>>)
            IN MDone(Return([k \in 1..Len(files_items) |->
                         GoogleDriveFile_from_item(self.file_cls, files_items[k])]),
                     <<request>>, service.loads, self)

(***************************************************************************)
(* The Drive service, as the requests of this program see it: the files    *)
(* it holds, each with its item and its parents.  A request for a file it  *)
(* does not hold, or one that fails on the way, raises HttpError.          *)
(***************************************************************************)
\* The id the service gives the copy of a file.
CopyId(id) == IF id = "f1" THEN "c1" ELSE "c2"

\* The body of the response to a request the service accepts.
DriveBody(d, request) ==
    LET file == d[request.fileId]
    IN CASE request.api = "drive.files.get" /\ "fields" \in DOMAIN request ->
              \* fields='parents': a file without parents has no such field
              IF file.parents = <<>> THEN <<>>
              ELSE [parents |-> file.parents]
         [] request.api = "drive.files.get" /\ "fields" \notin DOMAIN request ->
              file.item
         [] request.api = "drive.files.update" ->
              [id |-> request.fileId,
               parents |-> IF \E k \in 1..Len(file.parents) :
                                 file.parents[k] = request.addParents
                           THEN file.parents
                           ELSE Append(file.parents, request.addParents)]
         [] request.api = "drive.files.copy" ->
              [id |-> CopyId(request.fileId), name |-> request.body.name,
               mimeType |-> file.item.mimeType]
         [] request.api = "drive.files.delete" -> <<>>

DriveRespond(d, request, ok) ==
    IF ok /\ request.fileId \in DOMAIN d
    THEN Response(DriveBody(d, request))
    ELSE HttpError

\* The service after it accepted the request.
DriveAccept(d, request) ==
    LET id == request.fileId
    IN CASE id \notin DOMAIN d -> d
         [] request.api = "drive.files.update" ->
              [d EXCEPT ![id].parents = DriveBody(d, request).parents]
         [] request.api = "drive.files.copy" ->
              LET copy == DriveBody(d, request)
              IN (copy.id :> [item |-> copy, parents |-> d[id].parents]) @@ d
         [] request.api = "drive.files.delete" ->
              [f \in DOMAIN d \ {id} |-> d[f]]
         [] OTHER -> d

\* The service after the requests an operation executed, all accepted.
RECURSIVE DriveAfter(_, _)
DriveAfter(d, requests) ==
    IF requests = <<>> THEN d
    ELSE DriveAfter(DriveAccept(d, Head(requests)), Tail(requests))

(***************************************************************************)
(* The values the operations are given.                                    *)
(***************************************************************************)
FileIds == {"f1", "f2"}
FolderIds == {"d1", "d2"}
FileNames == {"copy.txt"}

\* Spreadsheet objects as GoogleDriveSpreadsheet(id=...) builds them.
Spreadsheets ==
    {GoogleDriveFile("GoogleDriveSpreadsheet", id, None, None) :
        id \in SpreadsheetIds}

\* Folder objects as GoogleDriveFolder(id=...) builds them.
Folders == {GoogleDriveFolder(id) : id \in FolderIds}

\* The `sheets` items of the Sheets API: without gridProperties, with them,
\* with empty ones or None, and with a tabColor.
SheetItems ==
    {[properties |-> [index |-> 0, title |-> t, sheetId |-> id]] :
        id \in SheetIds, t \in Titles}
    \cup
    {[properties |-> [index |-> 0, title |-> t, sheetId |-> id,
                      gridProperties |-> g]] :
        id \in SheetIds, t \in Titles,
        g \in {[rowCount |-> 10, columnCount |-> 5], <<>>, NoneObj}}
    \cup
    {[properties |-> [index |-> 0, title |-> t, sheetId |-> 0,
                      tabColor |-> c]] :
        t \in Titles, c \in {[red |-> 1, green |-> 0], <<>>}}

\* What execute() may do for a Sheets API request.
SheetsResponses ==
    {HttpError, Response([spreadsheetId |-> "sp"]),
     Response([values |-> << <<"v">> >>])}

\* The MIME types of the items of the Drive API.
ItemMimeTypes ==
    {MIME_TYPES["folder"], MIME_TYPES["document"],
     MIME_TYPES["spreadsheet"], "text/plain"}

\* The file items of the Drive API: id, and name and mimeType when present.
FileItems ==
    {[id |-> id, name |-> "n", mimeType |-> m] :
        id \in FileIds, m \in ItemMimeTypes}
    \cup {[id |-> id, name |-> "n"] : id \in FileIds}
    \cup {[id |-> id] : id \in FileIds}

\* What execute() may do for files().list(): an error, a response without
\* files, and the same two items in both orders.
ListResponses ==
    LET a == [id |-> "f1", name |-> "n", mimeType |-> MIME_TYPES["document"]]
        b == [id |-> "f2", name |-> "m", mimeType |-> "text/plain"]
    IN {HttpError, Response([kind |-> "drive#fileList"]),
        Response([files |-> <<a, b>>]), Response([files |-> <<b, a>>])}

\* The key files the environment variable may name, when it is set.
DefaultFiles == {None, "", "/keys/default.json", "/keys/gone.json"}

\* The paths using() is called with.
UsingPaths == {"/keys/custom.json", "/keys/other.json", "/keys/missing.json", ""}

\* All sequences over S of length 1..n
RECURSIVE SeqsUpTo(_, _)
SeqsUpTo(S, n) ==
    IF n = 0 THEN {}
    ELSE LET shorter == SeqsUpTo(S, n - 1)
         IN {<<c>> : c \in S} \cup shorter
            \cup {Append(t, c) : t \in shorter, c \in S}

\* Keywords over a small alphabet, and some longer ones.
KeyAlphabet == {"_", "a", "Z"}
ShortKeys == SeqsUpTo(KeyAlphabet, MaxKeyLen) \cup {<<"_", "_", "a">>}
NamedKeys == {FolderKey, MimeTypeKey, <<"_", "a", "_", "b", "_", "1">>}

\* The keyword arguments of one keyword: `folder` is given a Folder, another
\* keyword one of `values`.
KwargsOf(keys, values) ==
    {[value |-> v, key |-> k] : k \in keys \ {FolderKey}, v \in values}
    \cup {[value |-> PyObj(GoogleDriveFolder("d1")), key |-> k] :
            k \in keys \cap {FolderKey}}

DistinctKeys(kwargs) ==
    \A k, l \in 1..Len(kwargs) : kwargs[k].key = kwargs[l].key => k = l

\* The keyword arguments of a call with up to n of the keywords `keys`: a
\* call gives a keyword once.
KwargsUpTo(keys, values, n) ==
    {<<>>} \cup {kw \in SeqsUpTo(KwargsOf(keys, values), n) : DistinctKeys(kw)}

\* The calls of filter: one keyword of the small alphabet, or up to
\* MaxKwargs of the longer ones.
FilterKwargs ==
    KwargsUpTo(ShortKeys, {PyBool(TRUE), PyStr("x")}, 1)
    \cup KwargsUpTo(NamedKeys, {PyBool(TRUE), PyBool(FALSE), PyStr("x")}, MaxKwargs)

\* The parents other clients of the Drive give a file.
ParentLists ==
    {<<>>} \cup {ps \in SeqsUpTo(FolderIds, Cardinality(FolderIds)) :
                    \A k, l \in 1..Len(ps) : ps[k] = ps[l] => k = l}

(***************************************************************************)
(* The state after construction.                                           *)
(***************************************************************************)
InitSheets == [i \in SheetSlots |-> Sheet(0, 0, <<"S", "1">>, NoneObj, NoneObj)]

InitFiles == [i \in FileSlots |-> GoogleDriveFile(default_class, "f1", None, None)]

InitDrive ==
    "f1" :> [item |-> [kind |-> "drive#file", id |-> "f1", name |-> "report",
                       mimeType |-> MIME_TYPES["document"]],
             parents |-> <<"d1">>]

InitManager == GoogleDriveDocumentManager(default_class, "/keys/default.json")

NoOp == [op |-> "none"]

(***************************************************************************)
(* The operations on Sheet objects.                                        *)
(***************************************************************************)
\* The record of an operation on the Sheet in slot i.
SheetDone(op, i, done, resp) ==
    /\ sheetObjs' = [sheetObjs EXCEPT ![i] = done.self]
    /\ last' = [result |-> done.result,
                requests |-> done.requests,
                op |-> op,
                pre |-> sheetObjs[i],
                api_error |-> (done.requests # <<>> /\ ~resp.ok)]
    /\ UNCHANGED <<fileObjs, drive, mgr>>

\* Sheet(id=..., index=..., title=...)
DoSheetNew(i) ==
    \E id \in SheetIds, t \in Titles :
        /\ sheetObjs' = [sheetObjs EXCEPT ![i] = Sheet(id, 0, t, NoneObj, NoneObj)]
        /\ last' = [item |-> id, op |-> "Sheet"]
        /\ UNCHANGED <<fileObjs, drive, mgr>>

\* Sheet.from_item(item)
DoSheetFromItem(i) ==
    \E item \in SheetItems :
        /\ sheetObjs' = [sheetObjs EXCEPT ![i] = Sheet_from_item(item)]
        /\ last' = [item |-> item, op |-> "Sheet.from_item"]
        /\ UNCHANGED <<fileObjs, drive, mgr>>

\* sheet.assign_spreadsheet(spreadsheet), None included
DoSheetAssign(i) ==
    \E sp \in Spreadsheets \cup {NoneObj} :
        /\ sheetObjs' = [sheetObjs EXCEPT
                            ![i] = Sheet_assign_spreadsheet(@, sp)]
        /\ last' = [item |-> sp, op |-> "Sheet.assign_spreadsheet"]
        /\ UNCHANGED <<fileObjs, drive, mgr>>

DoSheetRead(i) ==
    \E r \in Ranges, resp \in SheetsResponses :
        SheetDone("Sheet.read", i, Sheet_read(sheetObjs[i], r, resp), resp)

DoSheetWrite(i) ==
    \E r \in Ranges, d \in CellData, o \in ValueInputOptions,
       resp \in SheetsResponses :
        SheetDone("Sheet.write", i, Sheet_write(sheetObjs[i], r, d, o, resp), resp)

DoSheetClear(i) ==
    \E r \in Ranges, resp \in SheetsResponses :
        SheetDone("Sheet.clear", i, Sheet_clear(sheetObjs[i], r, resp), resp)

DoSheetDelete(i) ==
    \E resp \in SheetsResponses :
        SheetDone("Sheet.delete", i, Sheet_delete(sheetObjs[i], resp), resp)

\* sheetObjs[i] == sheetObjs[j]
DoSheetEq(i, j) ==
    /\ last' = [other |-> sheetObjs[j],
                result |-> Sheet_eq(sheetObjs[i], sheetObjs[j]),
                op |-> "Sheet.eq",
                pre |-> sheetObjs[i]]
    /\ UNCHANGED <<sheetObjs, fileObjs, drive, mgr>>

(***************************************************************************)
(* The operations on Spreadsheet objects.                                  *)
(***************************************************************************)
SpreadsheetDone(op, done, resp) ==
    /\ last' = [result |-> done.result,
                requests |-> done.requests,
                op |-> op,
                pre |-> done.self,
                api_error |-> ~resp.ok]
    /\ UNCHANGED <<sheetObjs, fileObjs, drive, mgr>>

DoSpreadsheetRead ==
    \E sp \in Spreadsheets, r \in Ranges, resp \in SheetsResponses :
        SpreadsheetDone("Spreadsheet.read",
                        GoogleDriveSpreadsheet_read(sp, r, resp), resp)

DoSpreadsheetWrite ==
    \E sp \in Spreadsheets, r \in Ranges, d \in CellData,
       o \in ValueInputOptions, resp \in SheetsResponses :
        SpreadsheetDone("Spreadsheet.write",
                        GoogleDriveSpreadsheet_write(sp, r, d, o, resp), resp)

DoSpreadsheetClear ==
    \E sp \in Spreadsheets, r \in Ranges, resp \in SheetsResponses :
        SpreadsheetDone("Spreadsheet.clear",
                        GoogleDriveSpreadsheet_clear(sp, r, resp), resp)

(***************************************************************************)
(* The operations on File objects and the files factory.                   *)
(***************************************************************************)
\* cls(id=...)
DoFileNew(i) ==
    \E cls \in FileClasses, id \in FileIds :
        /\ fileObjs' = [fileObjs EXCEPT ![i] = GoogleDriveFile(cls, id, None, None)]
        /\ last' = [cls |-> cls,
                    id |-> id,
                    result |-> Return(GoogleDriveFile(cls, id, None, None)),
                    op |-> "File"]
        /\ UNCHANGED <<sheetObjs, drive, mgr>>

\* GoogleDriveFilesFactory.from_item(item)
DoFactoryFromItem(i) ==
    \E item \in FileItems :
        /\ fileObjs' = [fileObjs EXCEPT ![i] = GoogleDriveFilesFactory_from_item(item)]
        /\ last' = [item |-> item,
                    result |-> Return(GoogleDriveFilesFactory_from_item(item)),
                    op |-> "Factory.from_item"]
        /\ UNCHANGED <<sheetObjs, drive, mgr>>

\* fileObjs[i] == fileObjs[j]
DoFileEq(i, j) ==
    /\ last' = [other |-> fileObjs[j],
                result |-> Return(GoogleDriveFile_eq(fileObjs[i], fileObjs[j])),
                op |-> "File.eq",
                pre |-> fileObjs[i]]
    /\ UNCHANGED <<sheetObjs, fileObjs, drive, mgr>>

\* The request an operation sends first does not depend on the response.
RequestOf(done) == done.requests[1]

\* The record of an operation of a File object that sent one request.
FileDone(op, arg, done, resp) ==
    /\ last' = [result |-> done.result,
                requests |-> done.requests,
                op |-> op,
                pre |-> done.self,
                api_error |-> ~resp.ok,
                arg |-> arg,
                response |-> resp]
    /\ drive' = IF resp.ok THEN DriveAfter(drive, done.requests) ELSE drive
    /\ UNCHANGED <<sheetObjs, fileObjs, mgr>>

\* file.delete()
DoFileDelete(i) ==
    LET done == GoogleDriveFile_delete(fileObjs[i])
    IN /\ last' = [result |-> done.result,
                   requests |-> done.requests,
                   op |-> "File.delete",
                   pre |-> fileObjs[i],
                   api_error |-> FALSE]
       /\ drive' = DriveAfter(drive, done.requests)
       /\ UNCHANGED <<sheetObjs, fileObjs, mgr>>

\* list(file.parents)
DoFileParents(i) ==
    \E ok \in BOOLEAN :
        LET self == fileObjs[i]
            request == RequestOf(GoogleDriveFile_parents(self, HttpError))
            resp == DriveRespond(drive, request, ok)
        IN FileDone("File.parents", NoneObj,
                    GoogleDriveFile_parents(self, resp), resp)

\* fileObjs[i] in folder
DoFolderContains(i) ==
    \E folder \in Folders, ok \in BOOLEAN :
        LET item == fileObjs[i]
            request == RequestOf(GoogleDriveFolder_contains(folder, item, HttpError))
            resp == DriveRespond(drive, request, ok)
        IN FileDone("Folder.contains", item,
                    GoogleDriveFolder_contains(folder, item, resp), resp)

\* file.put_to_folder(folder)
DoFilePutToFolder(i) ==
    \E folder \in Folders, ok \in BOOLEAN :
        LET self == fileObjs[i]
            request == RequestOf(GoogleDriveFile_put_to_folder(self, folder, HttpError))
            resp == DriveRespond(drive, request, ok)
        IN FileDone("File.put_to_folder", folder,
                    GoogleDriveFile_put_to_folder(self, folder, resp), resp)

\* file.copy(file_name)
DoFileCopy(i) ==
    \E file_name \in FileNames, ok \in BOOLEAN :
        LET self == fileObjs[i]
            request == RequestOf(GoogleDriveFile_copy(self, file_name, HttpError))
            resp == DriveRespond(drive, request, ok)
        IN FileDone("File.copy", file_name,
                    GoogleDriveFile_copy(self, file_name, resp), resp)

\* Another client of the Drive moves the file.
DoEnvSetParents ==
    \E ps \in ParentLists :
        /\ "f1" \in DOMAIN drive
        /\ drive' = [drive EXCEPT !["f1"].parents = ps]
        /\ last' = [op |-> "env", arg |-> ps]
        /\ UNCHANGED <<sheetObjs, fileObjs, mgr>>

(***************************************************************************)
(* The operations on the manager.                                          *)
(***************************************************************************)
ManagerDone(op, arg, done, resp) ==
    /\ mgr' = done.self
    /\ last' = [result |-> done.result,
                requests |-> done.requests,
                loads |-> done.loads,
                op |-> op,
                pre |-> mgr,
                api_error |-> (done.requests # <<>> /\ ~resp.ok),
                arg |-> arg,
                response |-> resp]
    /\ UNCHANGED <<sheetObjs, fileObjs, drive>>

\* cls.objects(): a new manager of the class
DoManagerNew ==
    \E cls \in FileClasses :
        /\ mgr' = GoogleDriveDocumentManager(cls, mgr.default_service_account_file)
        /\ last' = [op |-> "Manager", arg |-> cls]
        /\ UNCHANGED <<sheetObjs, fileObjs, drive>>

\* manager.using(path)
DoManagerUsing ==
    \E path \in UsingPaths :
        ManagerDone("Manager.using", path, Manager_using(mgr, path), HttpError)

\* manager._get_api_service()
DoManagerGetApiService ==
    ManagerDone("Manager._get_api_service", NoneObj,
                Manager_get_api_service(mgr), HttpError)

\* manager.get(id)
DoManagerGet ==
    \E id \in FileIds, ok \in BOOLEAN :
        LET resp == DriveRespond(drive, [api |-> "drive.files.get", fileId |-> id], ok)
        IN ManagerDone("Manager.get", id, Manager_get(mgr, id, resp), resp)

\* manager.filter(**kwargs), for the keyword arguments `calls`
DoManagerFilter(calls) ==
    \E kwargs \in calls, resp \in ListResponses :
        ManagerDone("Manager.filter", kwargs,
                    Manager_filter(mgr, kwargs, resp), resp)

(***************************************************************************)
(* The specifications: the state after construction, and the operations    *)
(* of one part of the program in any order.                                *)
(***************************************************************************)
Init ==
    /\ sheetObjs = InitSheets
    /\ fileObjs = InitFiles
    /\ drive = InitDrive
    /\ mgr = InitManager
    /\ last = NoOp

\* Sheet objects.
SheetNext ==
    \/ \E i \in SheetSlots : DoSheetNew(i)
    \/ \E i \in SheetSlots : DoSheetFromItem(i)
    \/ \E i \in SheetSlots : DoSheetAssign(i)
    \/ \E i \in SheetSlots : DoSheetRead(i)
    \/ \E i \in SheetSlots : DoSheetWrite(i)
    \/ \E i \in SheetSlots : DoSheetClear(i)
    \/ \E i \in SheetSlots : DoSheetDelete(i)
    \/ \E i, j \in SheetSlots : DoSheetEq(i, j)

SheetSpec == Init /\ [][SheetNext]_vars

\* File objects: construction, the factory, ==.
FilesNext ==
    \/ \E i \in FileSlots : DoFileNew(i)
    \/ \E i \in FileSlots : DoFactoryFromItem(i)
    \/ \E i, j \in FileSlots : DoFileEq(i, j)

FilesSpec == Init /\ [][FilesNext]_vars

\* A file on the Drive, its wrappers and the other clients of the Drive.
DriveNext ==
    \/ \E i \in FileSlots : DoFileNew(i)
    \/ \E i \in FileSlots : DoFileDelete(i)
    \/ \E i \in FileSlots : DoFileParents(i)
    \/ \E i \in FileSlots : DoFolderContains(i)
    \/ \E i \in FileSlots : DoFilePutToFolder(i)
    \/ DoManagerGet
    \/ DoEnvSetParents

DriveSpec == Init /\ [][DriveNext]_vars

\* Every operation that executes a request, with responses and errors; the
\* Sheets are those of a Spreadsheet.
ApiInit ==
    /\ sheetObjs = [i \in SheetSlots |->
          Sheet_assign_spreadsheet(InitSheets[i],
              GoogleDriveFile("GoogleDriveSpreadsheet", "sp1", None, None))]
    /\ fileObjs = InitFiles
    /\ drive = InitDrive
    /\ mgr = InitManager
    /\ last = NoOp

ApiNext ==
    \/ DoManagerGet
    \/ DoManagerFilter(KwargsUpTo(NamedKeys, {PyBool(FALSE), PyStr("x")}, 1))
    \/ \E i \in FileSlots : DoFileCopy(i)
    \/ \E i \in FileSlots : DoFilePutToFolder(i)
    \/ DoSpreadsheetRead
    \/ DoSpreadsheetWrite
    \/ DoSpreadsheetClear
    \/ \E i \in SheetSlots : DoSheetDelete(i)

ApiSpec == ApiInit /\ [][ApiNext]_vars

\* The managers of the wrapper classes and their filter.
FilterNext ==
    \/ DoManagerNew
    \/ DoManagerFilter(FilterKwargs)

FilterSpec == Init /\ [][FilterNext]_vars

\* A manager and its service account file.
ManagerInit ==
    /\ sheetObjs = InitSheets
    /\ fileObjs = InitFiles
    /\ drive = InitDrive
    /\ \E default \in DefaultFiles :
          mgr = GoogleDriveDocumentManager(default_class, default)
    /\ last = NoOp

ManagerNext ==
    \/ DoManagerNew
    \/ DoManagerUsing
    \/ DoManagerGetApiService
    \/ DoManagerGet

ManagerSpec == ManagerInit /\ [][ManagerNext]_vars

(***************************************************************************)
(* The properties.                                                         *)
(***************************************************************************)
SheetAccessOps == {"Sheet.read", "Sheet.write", "Sheet.clear"}

\* C1: a read, write or clear of a Sheet whose spreadsheet reference is unset
\* (never assigned, assigned None, or dropped by a successful delete) raises
\* AssertionError, and executes no request against a Spreadsheet or the API.
C1_UnsetSpreadsheetFailsFast ==
    (last.op \in SheetAccessOps /\ last.pre.spreadsheet = NoneObj)
        => (last.result = Raise("AssertionError") /\ last.requests = <<>>)

\* A write on a Sheet without spreadsheet has just failed.
C1_Witness ==
    /\ last.op = "Sheet.write"
    /\ last.pre.spreadsheet = NoneObj
    /\ last.result = Raise("AssertionError")

\* C2, as claimed: when file.delete() has returned, a delete request for the
\* file's id was executed and the Drive no longer holds the file.
C2_DeleteRemovesFile ==
    (last.op = "File.delete" /\ last.result.kind = "return")
        => /\ \E k \in 1..Len(last.requests) :
                 /\ last.requests[k].api = "drive.files.delete"
                 /\ last.requests[k].fileId = last.pre.id
           /\ last.pre.id \notin DOMAIN drive

\* The operations C3 names.
ApiOps ==
    {"Manager.get", "Manager.filter", "File.copy", "File.put_to_folder",
     "Spreadsheet.read", "Spreadsheet.write", "Spreadsheet.clear",
     "Sheet.delete"}

\* C3, as claimed: an operation whose API call failed with an HttpError ends
\* with that error, for every operation.
C3_EveryApiErrorPropagates ==
    (last.op \in ApiOps /\ last.api_error)
        => last.result = Raise("HttpError")

\* C3, amended: an operation other than manager get whose API call failed
\* with an HttpError ends with that error; manager get returns None.
C3_ApiErrorPropagatesButGet ==
    /\ (last.op \in ApiOps \ {"Manager.get"} /\ last.api_error)
          => last.result = Raise("HttpError")
    /\ (last.op = "Manager.get" /\ last.api_error)
          => last.result = Return(NoneObj)

\* A copy has failed with the API's error.
C3_Witness ==
    /\ last.op = "File.copy"
    /\ last.api_error
    /\ last.result = Raise("HttpError")

\* The wrapper class the claim gives a MIME type.
C4_ClassOf(mime_type) ==
    CASE mime_type = MIME_TYPES.folder -> "GoogleDriveFolder"
      [] mime_type = MIME_TYPES.document -> "GoogleDriveDocument"
      [] mime_type = MIME_TYPES.spreadsheet -> "GoogleDriveSpreadsheet"
      [] OTHER -> "GoogleDriveFile"

\* C4: the factory's from_item(item) returns an object of the class of the
\* item's mimeType, the base class when it is another or absent, whose id,
\* name and mime_type are the item's (None for an absent name or mimeType).
C4_FactoryDispatch ==
    last.op = "Factory.from_item" =>
        LET item == last.item
            obj == last.result.value
        IN /\ last.result.kind = "return"
           /\ obj.cls = (IF "mimeType" \in DOMAIN item
                         THEN C4_ClassOf(item.mimeType) ELSE "GoogleDriveFile")
           /\ obj.id = item.id
           /\ obj.name = (IF "name" \in DOMAIN item THEN item.name ELSE None)
           /\ obj.mime_type =
                (IF "mimeType" \in DOMAIN item THEN item.mimeType ELSE None)

\* The factory has built a Spreadsheet from a spreadsheet item.
C4_Witness ==
    /\ last.op = "Factory.from_item"
    /\ "mimeType" \in DOMAIN last.item
    /\ last.item.mimeType = MIME_TYPES["spreadsheet"]
    /\ last.result.value.cls = "GoogleDriveSpreadsheet"

\* The places of a keyword where an underscore is followed by a lowercase
\* letter.
C5_Underscores(key) ==
    {k \in 1..(Len(key) - 1) : key[k] = "_" /\ IsLower(key[k + 1])}

\* The camelCase of a keyword as the claim words it: each underscore that a
\* lowercase letter follows is dropped and that letter put in upper case,
\* every other character is kept.
C5_CamelKey(key) ==
    LET dropped == C5_Underscores(key)
        kept == {p \in 1..Len(key) : p \notin dropped}
        place(n) == CHOOSE p \in kept : Cardinality({r \in kept : r <= p}) = n
    IN [n \in 1..Cardinality(kept) |->
          IF place(n) - 1 \in dropped
          THEN Upper(key[place(n)]) ELSE key[place(n)]]

\* The clause of one keyword.
C5_Clause(kwarg) ==
    IF kwarg.key = <<"f", "o", "l", "d", "e", "r">>
    THEN <<"'", kwarg.value.obj.id, "' in parents">>
    ELSE IF kwarg.value.type = "bool"
    THEN C5_CamelKey(kwarg.key)
         \o <<" = ", IF kwarg.value.bool THEN "True" ELSE "False">>
    ELSE C5_CamelKey(kwarg.key) \o <<" contains '", kwarg.value.str, "'">>

\* The keywords after the class's MIME type, when it has one, is set as the
\* keyword mime_type: in the caller's place for it, or else last.
C5_Keywords(kwargs, cls) ==
    LET mime == [value |-> PyStr(ClassMimeType(cls)), key |-> MimeTypeKey]
    IN IF ClassMimeType(cls) = None
       THEN kwargs
       ELSE IF \E k \in 1..Len(kwargs) : kwargs[k].key = MimeTypeKey
       THEN [k \in 1..Len(kwargs) |->
               IF kwargs[k].key = MimeTypeKey THEN mime ELSE kwargs[k]]
       ELSE kwargs \o <<mime>>

\* The clauses, with " and " between one and the next.
RECURSIVE C5_AndJoin(_)
C5_AndJoin(clauses) ==
    IF clauses = <<>> THEN <<>>
    ELSE IF Len(clauses) = 1 THEN clauses[1]
    ELSE C5_AndJoin(SubSeq(clauses, 1, Len(clauses) - 1))
         \o <<" and ">> \o clauses[Len(clauses)]

\* C5: the one request of filter(**kwargs) is a files().list() whose q is the
\* ' and '-join, in keyword order, of the clause of every keyword, the
\* class's MIME type set as mime_type first; when the API answers, the result
\* is one object of the manager's class per item of the response, in order.
C5_FilterQueryAndResult ==
    (last.op = "Manager.filter" /\ last.requests # <<>>) =>
        LET cls == last.pre.file_cls
            kw == C5_Keywords(last.arg, cls)
            items == IF "files" \in DOMAIN last.response.body
                     THEN last.response.body.files ELSE <<>>
        IN /\ Len(last.requests) = 1
           /\ last.requests[1].api = "drive.files.list"
           /\ last.requests[1].q =
                 C5_AndJoin([k \in 1..Len(kw) |-> C5_Clause(kw[k])])
           /\ last.response.ok =>
                 /\ last.result.kind = "return"
                 /\ Len(last.result.value) = Len(items)
                 /\ \A k \in 1..Len(items) :
                       /\ last.result.value[k].cls = cls
                       /\ last.result.value[k].id = items[k].id

\* The Document manager has filtered by a caller's mime_type and a folder,
\* and got two files.
C5_Witness ==
    /\ last.op = "Manager.filter"
    /\ last.pre.file_cls = "GoogleDriveDocument"
    /\ Len(last.arg) = 2
    /\ last.arg[1].key = MimeTypeKey
    /\ last.arg[2].key = FolderKey
    /\ last.response.ok
    /\ last.result.kind = "return"
    /\ Len(last.result.value) = 2

\* File objects of every class and id, to compare the wrappers with.
C6_Others ==
    {GoogleDriveFile(cls, id, None, None) : cls \in FileClasses, id \in FileIds}

\* C6: a == b of two File objects is true exactly when their ids are equal,
\* whatever their classes, names and MIME types; == is reflexive, symmetric
\* and transitive.
C6_FileEqualityById ==
    /\ last.op = "File.eq"
          => last.result = Return(last.pre.id = last.other.id)
    /\ \A i, j \in FileSlots :
          LET a == fileObjs[i]
              b == fileObjs[j]
          IN /\ GoogleDriveFile_eq(a, a)
             /\ GoogleDriveFile_eq(a, b) <=> (a.id = b.id)
             /\ GoogleDriveFile_eq(a, b) <=> GoogleDriveFile_eq(b, a)
             /\ \A c \in C6_Others :
                   /\ GoogleDriveFile_eq(a, c) <=> GoogleDriveFile_eq(c, a)
                   /\ (GoogleDriveFile_eq(a, b) /\ GoogleDriveFile_eq(b, c))
                         => GoogleDriveFile_eq(a, c)
                   /\ (GoogleDriveFile_eq(a, c) /\ GoogleDriveFile_eq(c, b))
                         => GoogleDriveFile_eq(a, b)

\* Two objects of different classes and names with one id compared equal.
C6_Witness ==
    /\ last.op = "File.eq"
    /\ last.pre.cls # last.other.cls
    /\ last.pre.name # last.other.name
    /\ last.pre.id = last.other.id
    /\ last.result = Return(TRUE)

\* C7, as claimed: s1 == s2 of two Sheets, with or without a spreadsheet,
\* yields true when their sheet ids are equal and false when they differ.
C7_SheetEqualityById ==
    last.op = "Sheet.eq"
        => last.result = Return(last.pre.id = last.other.id)

\* C7, amended: s1 == s2 of two Sheets that both have a spreadsheet is true
\* exactly when the spreadsheets have one id and the sheet ids are equal;
\* when either has no spreadsheet, == raises AssertionError.
C7_SheetEqualityWithinSpreadsheet ==
    last.op = "Sheet.eq" =>
        IF last.pre.spreadsheet # NoneObj /\ last.other.spreadsheet # NoneObj
        THEN last.result =
                Return(/\ last.pre.spreadsheet.id = last.other.spreadsheet.id
                       /\ last.pre.id = last.other.id)
        ELSE last.result = Raise("AssertionError")

\* Two Sheets with one sheet id, of different spreadsheets, compared unequal.
C7_Witness ==
    /\ last.op = "Sheet.eq"
    /\ last.pre.spreadsheet # NoneObj
    /\ last.other.spreadsheet # NoneObj
    /\ last.pre.spreadsheet.id # last.other.spreadsheet.id
    /\ last.pre.id = last.other.id
    /\ last.result = Return(FALSE)

\* The key file the claim has a manager use: the path using() set, when one
\* was set, and otherwise the default of the environment.
C8_SelectedFile(manager) ==
    IF manager.custom_service_account_file # None
    THEN manager.custom_service_account_file
    ELSE manager.default_service_account_file

\* C8: using(path) of a path that is no existing file raises ValueError and
\* leaves the manager as it was, and of an existing file selects it; building
\* the API service loads credentials from the selected file and no other;
\* with no path set and no default, it fails with AssertionError before any
\* credentials are loaded or any request is executed.
C8_ServiceAccountFile ==
    /\ last.op = "Manager.using" =>
          IF last.arg \in ExistingFiles
          THEN /\ last.result.kind = "return"
               /\ C8_SelectedFile(mgr) = last.arg
          ELSE /\ last.result = Raise("ValueError")
               /\ mgr = last.pre
    /\ last.op \in {"Manager._get_api_service", "Manager.get"} =>
          IF C8_SelectedFile(last.pre) \in {None, ""}
          THEN /\ last.result = Raise("AssertionError")
               /\ last.loads = <<>>
               /\ last.requests = <<>>
          ELSE /\ last.loads # <<>>
               /\ \A k \in 1..Len(last.loads) :
                     last.loads[k] = C8_SelectedFile(last.pre)

\* A manager with a default and a path set by using() has built its service
\* from the path of using().
C8_Witness ==
    /\ last.op = "Manager._get_api_service"
    /\ last.pre.custom_service_account_file = "/keys/custom.json"
    /\ last.pre.default_service_account_file = "/keys/default.json"
    /\ last.result.kind = "return"
    /\ last.loads = <<"/keys/custom.json">>

\* The parent ids the Drive holds for a file.
C9_ParentIds(id) == {drive[id].parents[k] : k \in 1..Len(drive[id].parents)}

\* C9, as claimed: every iteration of file.parents executes one request for
\* the file's parents and yields one Folder per parent id, in order; `file in
\* folder` is true exactly when folder.id is among the parent ids the API
\* returns at that moment; after put_to_folder(folder) succeeds the folder is
\* among them.
C9_ParentsFetchedEachTime ==
    /\ (last.op = "File.parents" /\ ~last.api_error) =>
          /\ last.requests = <<[api |-> "drive.files.get",
                                fileId |-> last.pre.id,
                                fields |-> "parents"]>>
          /\ last.result.kind = "return"
          /\ Len(last.result.value) = Len(drive[last.pre.id].parents)
          /\ \A k \in 1..Len(last.result.value) :
                /\ last.result.value[k].cls = "GoogleDriveFolder"
                /\ last.result.value[k].id = drive[last.pre.id].parents[k]
    /\ (last.op = "Folder.contains" /\ ~last.api_error) =>
          /\ Len(last.requests) = 1
          /\ last.result = Return(last.pre.id \in C9_ParentIds(last.arg.id))
    /\ (last.op = "File.put_to_folder" /\ last.result.kind = "return") =>
          last.arg.id \in C9_ParentIds(last.pre.id)

\* C10, as claimed: every object of a class with a fixed MIME type carries
\* that MIME type in mime_type, whether the factory built it from an item or
\* it was constructed with only an id.
C10_FixedMimeType ==
    \A i \in FileSlots :
        ClassMimeType(fileObjs[i].cls) # None
            => fileObjs[i].mime_type = ClassMimeType(fileObjs[i].cls)

====
